---------------------------- MODULE Spec2Model ----------------------------
(***************************************************************************)
(* A model of UpdateLoop (src/unnamed/part_000): a frame loop that calls   *)
(* the earlyUpdate / update / lateUpdate callbacks of its registered       *)
(* objects, driven by setInterval or by requestAnimationFrame.             *)
(*                                                                         *)
(* Time is in whole milliseconds.  A timer or refresh firing advances the  *)
(* clock and runs its callback; the dispatch (update(now)) is modelled one *)
(* callback invocation at a time, so that a callback can call stop(),      *)
(* register() or unregister() on the loop, or throw, in the middle of it.  *)
(* JavaScript is single threaded: while a dispatch is in progress nothing  *)
(* else runs but the callbacks it invokes.                                 *)
(***************************************************************************)
EXTENDS Integers, Sequences, FiniteSets, TLC

----------------------------------------------------------------------------
(* Bounds of the model *)

\* the clock never passes MaxTime milliseconds
MaxTime == 3
\* a firing comes 1..MaxStep milliseconds after the previous event
MaxStep == 2
\* at most MaxObjects registrants are registered at a time
MaxObjects == 3
\* start() is called when fewer than MaxArmed timing primitives are armed
MaxArmed == 2
\* the dispatch is explored for MaxTicks milliseconds
MaxTicks == 1
\* the callbacks of one tick call register/unregister at most MaxCbCalls times
MaxCbCalls == 1

----------------------------------------------------------------------------
(* JavaScript numbers: the integers, and four values that are no integer *)

\* NaN, as produced by  now - undefined  at line 83
NaN == -9001
\* Infinity, as produced by  1000 / null  at line 31
Infinity == 9001
\* -Infinity, as produced by  deltaTime - Infinity  at line 141
NegInfinity == -9002
\* undefined, the value of a field that was never assigned
Undefined == -9003
\* null: targetFPS of an uncapped loop, and the timer field
Null == 0

IsNaN(x) == x \in {NaN, Undefined}
IsFinite(x) == x \notin {NaN, Undefined, Infinity, NegInfinity}

\* a - b
JsSub(a, b) ==
  IF IsNaN(a) \/ IsNaN(b) THEN NaN
  ELSE IF a = Infinity THEN (IF b = Infinity THEN NaN ELSE Infinity)
  ELSE IF a = NegInfinity THEN (IF b = NegInfinity THEN NaN ELSE NegInfinity)
  ELSE IF b = Infinity THEN NegInfinity
  ELSE IF b = NegInfinity THEN Infinity
  ELSE a - b

\* a + b
JsAdd(a, b) ==
  IF IsNaN(a) \/ IsNaN(b) THEN NaN
  ELSE IF a = Infinity THEN (IF b = NegInfinity THEN NaN ELSE Infinity)
  ELSE IF a = NegInfinity THEN (IF b = Infinity THEN NaN ELSE NegInfinity)
  ELSE IF b \in {Infinity, NegInfinity} THEN b
  ELSE a + b

\* Math.abs(a)
JsAbs(a) ==
  IF IsNaN(a) THEN NaN
  ELSE IF a \in {Infinity, NegInfinity} THEN Infinity
  ELSE IF a < 0 THEN -a ELSE a

\* a > b
JsGt(a, b) ==
  IF IsNaN(a) \/ IsNaN(b) THEN FALSE
  ELSE IF a = Infinity THEN b # Infinity
  ELSE IF a = NegInfinity THEN FALSE
  ELSE IF b = Infinity THEN FALSE
  ELSE IF b = NegInfinity THEN TRUE
  ELSE a > b

\* a >= b
JsGe(a, b) ==
  IF IsNaN(a) \/ IsNaN(b) THEN FALSE ELSE (a = b \/ JsGt(a, b))

\* Math.floor(a / b), for a >= 0 or not finite, and b > 0 or Infinity
JsFloorDiv(a, b) ==
  IF IsNaN(a) \/ IsNaN(b) THEN NaN
  ELSE IF b = Infinity THEN (IF IsFinite(a) THEN 0 ELSE NaN)
  ELSE IF ~IsFinite(a) THEN a
  ELSE IF b = 0 THEN (IF a = 0 THEN NaN ELSE Infinity)
  ELSE a \div b

\* a / b: the fraction <<n, d>> with d > 0 when the quotient is finite, and
\* <<x, 1>> with x one of NaN, Infinity, -Infinity when it is not
JsDiv(a, b) ==
  IF IsNaN(a) \/ IsNaN(b) THEN <<NaN, 1>>
  ELSE IF ~IsFinite(a)
       THEN IF ~IsFinite(b) THEN <<NaN, 1>>
            ELSE IF b >= 0 THEN <<a, 1>>
            ELSE <<IF a = Infinity THEN NegInfinity ELSE Infinity, 1>>
  ELSE IF ~IsFinite(b) THEN <<0, 1>>
  ELSE IF b = 0
       THEN IF a = 0 THEN <<NaN, 1>>
            ELSE <<IF a > 0 THEN Infinity ELSE NegInfinity, 1>>
  ELSE IF b < 0 THEN <<-a, -b>> ELSE <<a, b>>

\* q === v  for a fraction q and a number v
JsEquals(q, v) ==
  IF IsNaN(q[1]) \/ IsNaN(v) THEN FALSE
  ELSE IF ~IsFinite(q[1]) \/ ~IsFinite(v) THEN q[1] = v
  ELSE q[1] = v * q[2]

\* !x  for a number or null
Falsy(x) == x = Null \/ IsNaN(x)

----------------------------------------------------------------------------
(* The mode constants, lines 172-173 *)

INTERVAL == 0
RAF == 1
\* a value that is no mode
BadMode == 99

Modes == {INTERVAL, RAF, BadMode}

\* target rates: uncapped, 1000 and 500 ticks per second (intervals 1, 2 ms)
Rates == {Null, 1000, 500}

----------------------------------------------------------------------------
(* Registrants: A, B, C are objects defining the three callbacks, F is a    *)
(* bare function                                                            *)

Registrants == {"A", "B", "C", "F"}

\* obj.earlyUpdate && typeof obj.earlyUpdate === 'function'
HasEarly(o) == o \in {"A", "B", "C"}
\* obj.update && typeof obj.update === 'function'
HasUpdate(o) == o \in {"A", "B", "C"}
\* typeof obj.lateUpdate === 'function'
HasLate(o) == o \in {"A", "B", "C"}
\* typeof obj === 'function'
IsFunction(o) == o = "F"

\* whether the loop body of a phase invokes something for obj
Invokes(phase, o) ==
  CASE phase = "early" -> HasEarly(o)
    [] phase = "update" -> HasUpdate(o) \/ IsFunction(o)
    [] phase = "late" -> HasLate(o)
    [] OTHER -> FALSE

\* the phases in another order: lateUpdate before update
NextPhaseSwapped(phase) ==
  CASE phase = "early" -> "late"
    [] phase = "late" -> "update"
    [] OTHER -> "end"

\* the phase that follows, lines 144, 151, 160
NextPhase(phase) ==
  CASE phase = "early" -> "update"
    [] phase = "update" -> "late"
    [] OTHER -> "end"


----------------------------------------------------------------------------
(* The state *)

VARIABLES
  \* fields of the UpdateLoop object, lines 16-22 and 38-42, 86, 141
  objects, active, targetFPS, timer, frame, mode, lastUpdate, totalJitter,
  jitter, droppedFrame,
  \* this.loop: the driver object made by createIntervalLoop / createRAFLoop:
  \* [kind, timer, raf, startTime]
  loop,
  \* the host: performance.now(), the live setInterval timers (handles), the
  \* pending requestAnimationFrame requests (<<handle, closure>>)
  clock, intervals, rafs,
  \* the dispatch in progress: the phase, the array iterator's next index, the
  \* array the phase iterates and whether it still is this.objects, the
  \* registrant whose callback is running, the driver code that called
  \* update(now), and update's local deltaTime
  pc, idx, iterArr, iterLive, cur, ctx, deltaTime,
  \* "no" before the constructor ran, "yes" after it, "failed" when it threw
  constructed,
  \* the user of the loop: the registrants it may register, and the time to
  \* which it lets the loop run
  pool, horizon,
  \* history: the error of the latest start() or tick; the callbacks invoked
  \* by the tick; the calls of register/unregister by the tick's callbacks;
  \* the latest stop() since the latest start() ("out"side a dispatch, "in" a
  \* callback, "no"ne) and its value when the tick began; whether start() was
  \* ever called with a timing primitive armed; the setInterval firings and
  \* the longest wait for a firing since the latest start()
  err, calls, cbCalls, stopped, tickStop, dupStart, firings, maxGap,
  \* history of the registered set: the latest of register/unregister called
  \* for each registrant, and the registrants whose latest call is register,
  \* in the order of the register calls that found them not registered
  lastCall, regOrder,
  \* history of the statistics: the ticks dispatched since the latest
  \* start(), the sum of the values jitter took and of the deltaTime values
  \* in them, the time of the latest start(), and the calls of stop() made
  \* in a row, with no other step between them (counted up to 2)
  ticks, jitterSum, deltaSum, startStamp, stops,
  \* history of the tick: this.objects when the tick began, and the
  \* arguments of the register/unregister calls of the tick's callbacks
  tickObjects, cbArgs

prog == <<objects, active, targetFPS, timer, frame, mode, lastUpdate,
          totalJitter, jitter, droppedFrame, loop>>
host == <<clock, intervals, rafs>>
disp == <<pc, idx, iterArr, iterLive, cur, ctx, deltaTime>>
hist == <<err, calls, cbCalls, stopped, tickStop, dupStart, firings, maxGap,
          lastCall, regOrder>>
stat == <<ticks, jitterSum, deltaSum, startStamp>>
tickHist == <<tickObjects, cbArgs>>
user == <<constructed, pool, horizon>>
vars == <<prog, host, disp, user, hist, stat, stops, tickHist>>

Phases == {"early", "update", "late"}

\* the timing primitives that are armed
Armed ==
  {<<"interval", h>> : h \in intervals} \cup {<<"raf", r[1]>> : r \in rafs}

\* get delay(), lines 30-32
Delay == JsFloorDiv(1000, targetFPS)

\* get averageJitter(), lines 167-169
AverageJitter == JsDiv(totalJitter, frame)

\* the handle of a new timer or request: the least one that no live timer
\* or request has (the field that held an older handle is overwritten with
\* the new one, so no stale handle is ever mistaken for it)
Fresh(S) == CHOOSE h \in 1..(Cardinality(S) + 1) :
              /\ h \notin S
              /\ \A k \in 1..(h - 1) : k \in S

\* this.objects.includes(obj), line 117
Includes(arr, o) == \E i \in 1..Len(arr) : arr[i] = o

\* this.objects.filter((stored) => stored !== obj), line 128
Filter(arr, o) == SelectSeq(arr, LAMBDA stored : stored # o)

\* the removal made in the array that the phase iterates
IteratedInPlace(old, new) == new

\* the array that a for-of loop of lines 144-164 goes on iterating when
\* unregister() assigns the array new to this.objects, line 128: the loop
\* holds the iterator of the array old, which filter() left as it was
Iterated(old, new) == old

\* register without the includes() test
RegisteredAlways(arr, o) == Append(arr, o)

\* this.objects after register(obj), lines 117-119
Registered(arr, o) == IF Includes(arr, o) THEN arr ELSE Append(arr, o)

\* a loop object as createIntervalLoop ("interval") / createRAFLoop ("raf")
\* make it; "none" before the first start()
NewLoop(kind) ==
  [kind |-> kind, timer |-> Undefined, raf |-> Undefined,
   startTime |-> Undefined]

\* the guard of start(), line 41
DriverIdle == timer = Null

\* the guard of the RAF update, line 85
Eligible(fr, f0) == Falsy(targetFPS) \/ JsGt(fr, f0)

\* the frame left as it is
IntervalFrameKept(f0) == f0

\* this.frame += 1, line 66
IntervalFrame(f0) == JsAdd(f0, 1)

\* clearInterval(h), line 70
ClearInterval(S, h) == S \ {h}

\* a cancel that cancels nothing
CancelRafNothing(S, h) == S

\* cancelAnimationFrame(h), line 95
CancelRaf(S, h) == {r \in S : r[1] # h}

\* the timestamp itself
DeltaTimeStamp(now, last) == now

\* const deltaTime = now - this.lastUpdate, line 137
DeltaTime(now, last) == JsSub(now, last)

\* active turned over
StopActiveToggled == ~active

\* active after stop(), line 105
StopActive == FALSE

\* active set before the mode is looked at
StartActiveFirst(m) == TRUE

\* active after start() on a loop of mode m, lines 44-55
StartActive(m) == IF m \in {INTERVAL, RAF} THEN TRUE ELSE active

InitLoop ==
  /\ objects = <<>>
  /\ active = FALSE
  /\ targetFPS \in Rates
  /\ timer = Null
  /\ frame = 0
  /\ mode \in Modes
  /\ lastUpdate = Undefined
  /\ totalJitter = Undefined
  /\ jitter = Undefined
  /\ droppedFrame = FALSE
  /\ loop = NewLoop("none")
  /\ clock = 0
  /\ intervals = {}
  /\ rafs = {}
  /\ pc = "idle" /\ idx = 1 /\ iterArr = <<>> /\ iterLive = FALSE
  /\ cur = "none" /\ ctx = "none" /\ deltaTime = 0
  /\ constructed = "no"
  /\ err = "none" /\ calls = <<>> /\ cbCalls = 0
  /\ stopped = "no" /\ tickStop = "no" /\ dupStart = FALSE
  /\ firings = 0 /\ maxGap = 0
  /\ lastCall = [o \in Registrants |-> "none"]
  /\ regOrder = <<>>
  /\ ticks = 0 /\ jitterSum = 0 /\ deltaSum = 0 /\ startStamp = 0
  /\ stops = 0
  /\ tickObjects = <<>> /\ cbArgs = {}

\* a user that registers one bare function, starts and stops the loop and
\* changes its mode
Init ==
  /\ InitLoop
  /\ pool = {"F"}
  /\ horizon = MaxTime

----------------------------------------------------------------------------
\* a user that registers up to MaxObjects of the registrants and lets the
\* loop run for MaxTicks milliseconds at 1000 ticks per second
InitDispatch ==
  /\ InitLoop
  /\ mode \in {INTERVAL, RAF}
  /\ targetFPS = 1000
  /\ pool = Registrants
  /\ horizon = MaxTicks

----------------------------------------------------------------------------
(* update(now), lines 136-165: the statistics, then the first phase *)

BeginUpdate(t, c, lu, tj, st, since) ==
  /\ deltaTime' = DeltaTime(t, lu)
  /\ lastUpdate' = t
  /\ jitter' = JsAbs(JsSub(DeltaTime(t, lu), Delay))
  /\ totalJitter' = JsAdd(tj, JsAbs(JsSub(DeltaTime(t, lu), Delay)))
  /\ pc' = "early" /\ idx' = 1 /\ iterArr' = objects /\ iterLive' = TRUE
  /\ cur' = "none" /\ ctx' = c
  /\ calls' = <<>> /\ cbCalls' = 0 /\ tickStop' = st
  /\ ticks' = since.ticks + 1
  /\ jitterSum' = JsAdd(since.jitterSum, jitter')
  /\ deltaSum' = JsAdd(since.deltaSum, deltaTime')
  /\ tickObjects' = objects /\ cbArgs' = {}
  /\ UNCHANGED objects

\* no dispatch: the dispatch state and the tick's history stay as they are
NoUpdate ==
  UNCHANGED <<disp, calls, cbCalls, tickStop, objects, jitter, tickHist>>

\* the history of the statistics at a start(), and as it is
AtStart == [ticks |-> 0, jitterSum |-> 0, deltaSum |-> 0]
Since == [ticks |-> ticks, jitterSum |-> jitterSum, deltaSum |-> deltaSum]

\* no dispatch: the history of the statistics is as since says
KeepStat(since) ==
  /\ ticks' = since.ticks
  /\ jitterSum' = since.jitterSum
  /\ deltaSum' = since.deltaSum

\* requestAnimationFrame(this.loop.update), line 92, and for start() the
\* assignment of startTime that follows it, line 79
Rearm(rs, lp, c, t) ==
  LET h == Fresh({r[1] : r \in rs})
      k == lp.kind
  IN /\ rafs' = rs \cup {<<h, k>>}
     /\ loop' = [lp EXCEPT !.raf = h,
                           !.startTime = IF c = "rafstart" THEN t ELSE @]

\* the update closure of createRAFLoop, lines 81-93, up to the call of
\* update(now); f0, lu, tj are frame, lastUpdate and totalJitter when it runs
RafLoopUpdate(t, c, f0, lu, tj, lp, rs, st, since) ==
  LET fr == JsFloorDiv(JsSub(t, lp.startTime), Delay)
  IN IF Eligible(fr, f0)
     THEN /\ droppedFrame' = JsGe(JsSub(f0, fr), 2)
          /\ frame' = fr
          /\ loop' = lp
          /\ rafs' = rs
          /\ BeginUpdate(t, c, lu, tj, st, since)
     ELSE /\ frame' = f0
          /\ lastUpdate' = lu
          /\ totalJitter' = tj
          /\ UNCHANGED droppedFrame
          /\ Rearm(rs, lp, c, t)
          /\ KeepStat(since)
          /\ NoUpdate

----------------------------------------------------------------------------
(* start(), lines 37-58 *)

StartBody ==
  /\ firings' = 0 /\ maxGap' = 0
  /\ stopped' = "no" /\ stops' = 0
  /\ startStamp' = clock
  /\ dupStart' = (dupStart \/ Armed # {})
  /\ UNCHANGED <<targetFPS, timer, mode, clock, lastCall, regOrder>>
  /\ IF DriverIdle
     THEN CASE mode = INTERVAL ->
                 /\ totalJitter' = 0
                 /\ frame' = -1
                 /\ lastUpdate' = clock
                 /\ active' = StartActive(mode)
                 /\ LET h == Fresh(intervals)
                    IN /\ intervals' = intervals \cup {h}
                       /\ loop' = [NewLoop("interval") EXCEPT !.timer = h]
                 /\ err' = "none"
                 /\ UNCHANGED <<rafs, droppedFrame>>
                 /\ KeepStat(AtStart)
                 /\ NoUpdate
            [] mode = RAF ->
                 /\ active' = StartActive(mode)
                 /\ err' = "none"
                 /\ UNCHANGED intervals
                 /\ RafLoopUpdate(clock, "rafstart", -1, clock, 0,
                                  NewLoop("raf"), rafs, "no", AtStart)
            [] OTHER ->
                 /\ totalJitter' = 0
                 /\ frame' = -1
                 /\ lastUpdate' = clock
                 /\ active' = StartActive(mode)
                 /\ err' = "InvalidMode"
                 /\ UNCHANGED <<loop, intervals, rafs, droppedFrame>>
                 /\ KeepStat(AtStart)
                 /\ NoUpdate
     ELSE /\ totalJitter' = 0
          /\ frame' = -1
          /\ err' = "none"
          /\ UNCHANGED <<lastUpdate, active, loop, intervals, rafs,
                         droppedFrame>>
          /\ KeepStat(AtStart)
          /\ NoUpdate

\* new UpdateLoop(targetFPS, mode), lines 15-24: the fields are those of
\* Init, and the constructor ends with start()
Construct ==
  /\ constructed = "no"
  /\ pc = "idle"
  /\ constructed' = IF mode \in {INTERVAL, RAF} THEN "yes" ELSE "failed"
  /\ UNCHANGED <<pool, horizon>>
  /\ StartBody

\* start() called by the user, outside a dispatch
Start ==
  /\ constructed = "yes"
  /\ pc = "idle"
  /\ Cardinality(Armed) < MaxArmed
  /\ UNCHANGED user
  /\ StartBody


----------------------------------------------------------------------------
(* stop(), register(), unregister(): called by the user outside a dispatch, *)
(* or by the callback that is running                                       *)

\* the user can call the loop: it exists and no dispatch is in progress
UserCall == constructed = "yes" /\ pc = "idle"

\* the running callback can call the loop
CallbackCall == cur # "none"

\* stop(), lines 103-107, with the stop closure of the loop, lines 69-71, 94-96
StopBody ==
  /\ intervals' = IF loop.kind = "interval"
                  THEN ClearInterval(intervals, loop.timer) ELSE intervals
  /\ rafs' = IF loop.kind = "raf" THEN CancelRaf(rafs, loop.raf) ELSE rafs
  /\ active' = StopActive
  /\ frame' = -1
  /\ stopped' = IF pc = "idle" THEN "out" ELSE "in"
  /\ stops' = IF stops < 2 THEN stops + 1 ELSE stops
  /\ UNCHANGED <<objects, targetFPS, timer, mode, lastUpdate, totalJitter,
                 jitter, droppedFrame, loop, clock, disp, user,
                 err, calls, cbCalls, tickStop, dupStart, firings, maxGap,
                 lastCall, regOrder, stat, tickHist>>

\* register(obj), lines 116-120
RegisterBody(o) ==
  /\ o \in pool
  /\ Includes(objects, o) \/ Len(objects) < MaxObjects
  /\ objects' = Registered(objects, o)
  \* push() changes the array in place: a phase iterating it sees the change
  /\ iterArr' = IF iterLive THEN objects' ELSE iterArr
  /\ cbCalls' = IF pc = "idle" THEN cbCalls ELSE cbCalls + 1
  /\ lastCall' = [lastCall EXCEPT ![o] = "register"]
  /\ regOrder' = IF lastCall[o] = "register" THEN regOrder
                 ELSE Append(regOrder, o)
  /\ cbArgs' = IF pc = "idle" THEN cbArgs ELSE cbArgs \cup {o}
  /\ UNCHANGED <<active, targetFPS, timer, frame, mode, lastUpdate,
                 totalJitter, jitter, droppedFrame, loop, host,
                 pc, idx, iterLive, cur, ctx, deltaTime, user,
                 err, calls, stopped, tickStop, dupStart, firings, maxGap,
                 stat, tickObjects>>
  /\ stops' = 0

\* unregister(obj), lines 127-129
UnregisterBody(o) ==
  /\ o \in pool
  /\ objects' = Filter(objects, o)
  \* filter() makes a new array: a phase in progress keeps iterating the old
  /\ iterArr' = Iterated(iterArr, objects')
  /\ iterLive' = FALSE
  /\ cbCalls' = IF pc = "idle" THEN cbCalls ELSE cbCalls + 1
  /\ lastCall' = [lastCall EXCEPT ![o] = "unregister"]
  /\ regOrder' = SelectSeq(regOrder, LAMBDA x : x # o)
  /\ cbArgs' = IF pc = "idle" THEN cbArgs ELSE cbArgs \cup {o}
  /\ UNCHANGED <<active, targetFPS, timer, frame, mode, lastUpdate,
                 totalJitter, jitter, droppedFrame, loop, host,
                 pc, idx, cur, ctx, deltaTime, user,
                 err, calls, stopped, tickStop, dupStart, firings, maxGap,
                 stat, tickObjects>>
  /\ stops' = 0

Stop == UserCall /\ StopBody
Register(o) == UserCall /\ RegisterBody(o)
Unregister(o) == UserCall /\ UnregisterBody(o)

CbStop == CallbackCall /\ StopBody
CbRegister(o) == CallbackCall /\ cbCalls < MaxCbCalls /\ RegisterBody(o)
CbUnregister(o) == CallbackCall /\ cbCalls < MaxCbCalls /\ UnregisterBody(o)

\* loop.mode = m: the mode is a plain field that the user can assign
SetMode(m) ==
  /\ constructed = "yes"
  /\ pc = "idle"
  /\ m # mode
  /\ mode' = m
  /\ UNCHANGED <<objects, active, targetFPS, timer, frame, lastUpdate,
                 totalJitter, jitter, droppedFrame, loop, host, disp,
                 user, hist, stat, tickHist>>
  /\ stops' = 0

----------------------------------------------------------------------------
(* The host fires a timer or a refresh request *)

\* the update closure of createIntervalLoop, lines 65-68
IntervalLoopUpdate(t) ==
  /\ frame' = IntervalFrame(frame)
  /\ BeginUpdate(t, "interval", lastUpdate, totalJitter, stopped, Since)
  /\ err' = "none"
  /\ UNCHANGED <<active, targetFPS, timer, mode, droppedFrame, loop>>

\* a setInterval timer fires, d milliseconds after the previous event
IntervalFire(h, d) ==
  /\ constructed = "yes"
  /\ pc = "idle"
  /\ h \in intervals
  /\ clock + d <= horizon
  /\ clock' = clock + d
  /\ firings' = firings + 1
  /\ maxGap' = IF d > maxGap THEN d ELSE maxGap
  /\ IntervalLoopUpdate(clock + d)
  /\ UNCHANGED <<intervals, rafs, user, stopped, dupStart, lastCall,
                 regOrder, startStamp>>
  /\ stops' = 0

\* a requestAnimationFrame request fires, d milliseconds after the previous
\* event: the request is spent, and its closure runs
RafFire(r, d) ==
  /\ constructed = "yes"
  /\ pc = "idle"
  /\ r \in rafs
  /\ clock + d <= horizon
  /\ clock' = clock + d
  /\ maxGap' = IF d > maxGap THEN d ELSE maxGap
  /\ IF r[2] = "raf"
     THEN /\ RafLoopUpdate(clock + d, "raf", frame, lastUpdate, totalJitter,
                           loop, rafs \ {r}, stopped, Since)
          /\ err' = "none"
          /\ UNCHANGED <<active, targetFPS, timer, mode>>
     ELSE /\ rafs' = rafs \ {r}
          /\ IntervalLoopUpdate(clock + d)
  /\ UNCHANGED <<intervals, user, stopped, dupStart, firings, lastCall,
                 regOrder, startStamp>>
  /\ stops' = 0

----------------------------------------------------------------------------
(* The steps of a dispatch, lines 144-164 *)

\* the for-of loop of the phase takes the next element, which has the
\* phase's callback: the callback is called with deltaTime
Invoke ==
  /\ pc \in Phases /\ cur = "none"
  /\ idx <= Len(iterArr)
  /\ Invokes(pc, iterArr[idx])
  /\ cur' = iterArr[idx]
  /\ idx' = idx + 1
  /\ calls' = Append(calls, <<iterArr[idx], pc, deltaTime>>)
  /\ UNCHANGED <<prog, host, pc, iterArr, iterLive, ctx, deltaTime,
                 user, err, cbCalls, stopped, tickStop, dupStart,
                 firings, maxGap, lastCall, regOrder, stat, tickHist>>
  /\ stops' = 0

\* the next element has no callback for the phase
Skip ==
  /\ pc \in Phases /\ cur = "none"
  /\ idx <= Len(iterArr)
  /\ ~Invokes(pc, iterArr[idx])
  /\ idx' = idx + 1
  /\ UNCHANGED <<prog, host, pc, iterArr, iterLive, cur, ctx, deltaTime,
                 user, hist, stat, tickHist>>
  /\ stops' = 0

\* the running callback returns
Return ==
  /\ cur # "none"
  /\ cur' = "none"
  /\ UNCHANGED <<prog, host, pc, idx, iterArr, iterLive, ctx, deltaTime,
                 user, hist, stat, tickHist>>
  /\ stops' = 0

\* the error caught and the loop of the phase continued
AfterThrowCaught(ph) == ph

\* where the dispatch goes on when a callback called in phase ph throws:
\* lines 144-164 hold no try, so the error leaves the loops of update(now)
AfterThrow(ph) == "thrown"

\* the running callback throws: nothing catches the error, which leaves
\* update(now) and the driver code that called it
Throw ==
  /\ cur # "none"
  /\ cur' = "none"
  /\ pc' = AfterThrow(pc)
  /\ err' = IF ctx = "rafstart" THEN "callback in start" ELSE "callback"
  /\ UNCHANGED <<prog, host, idx, iterArr, iterLive, ctx, deltaTime,
                 user, calls, cbCalls, stopped, tickStop, dupStart,
                 firings, maxGap, lastCall, regOrder, stat, tickHist>>
  /\ stops' = 0

\* the for-of loop of a phase ends and the next phase starts over this.objects
PhaseEnd ==
  /\ pc \in Phases /\ cur = "none"
  /\ idx > Len(iterArr)
  /\ NextPhase(pc) # "end"
  /\ pc' = NextPhase(pc)
  /\ idx' = 1
  /\ iterArr' = objects
  /\ iterLive' = TRUE
  /\ UNCHANGED <<prog, host, cur, ctx, deltaTime, user, hist, stat,
                 tickHist>>
  /\ stops' = 0

\* the dispatch state once update(now) and its caller are left
Idle ==
  /\ pc' = "idle" /\ idx' = 1 /\ iterArr' = <<>> /\ iterLive' = FALSE
  /\ cur' = "none" /\ ctx' = "none" /\ deltaTime' = 0
  /\ calls' = <<>> /\ cbCalls' = 0 /\ tickStop' = "no"
  /\ tickObjects' = <<>> /\ cbArgs' = {}

\* the last phase ends: update(now) returns to the driver code, which in the
\* RAF closure goes on with lines 89 and 92 (and line 79 in start())
Finish ==
  /\ pc = "late" /\ cur = "none"
  /\ idx > Len(iterArr)
  /\ Idle
  /\ IF ctx = "interval"
     THEN UNCHANGED <<lastUpdate, rafs, loop>>
     ELSE /\ lastUpdate' = clock
          /\ Rearm(rafs, loop, ctx, clock)
  /\ UNCHANGED <<objects, active, targetFPS, timer, frame, mode,
                 totalJitter, jitter, droppedFrame, clock, intervals,
                 user, err, stopped, dupStart, firings, maxGap, lastCall,
                 regOrder, stat>>
  /\ stops' = 0

\* the error reaches the host, which reports it
Unwind ==
  /\ pc = "thrown"
  /\ Idle
  /\ UNCHANGED <<prog, host, user, err, stopped, dupStart, firings,
                 maxGap, lastCall, regOrder, stat>>
  /\ stops' = 0

----------------------------------------------------------------------------

\* the steps of the host and of a dispatch
Run ==
  \/ \E h \in intervals, d \in 1..MaxStep : IntervalFire(h, d)
  \/ \E r \in rafs, d \in 1..MaxStep : RafFire(r, d)
  \/ Invoke
  \/ Skip
  \/ Return
  \/ Throw
  \/ PhaseEnd
  \/ Finish
  \/ Unwind

\* the life cycle: the user starts and stops the loop and changes its mode,
\* a callback stops the loop
Next ==
  \/ Construct
  \/ Start
  \/ Stop
  \/ CbStop
  \/ \E o \in Registrants : Register(o)
  \/ \E o \in Registrants : Unregister(o)
  \/ \E m \in Modes : SetMode(m)
  \/ Run

Spec == Init /\ [][Next]_vars

\* the dispatch: the user and the callbacks register and unregister
NextDispatch ==
  \/ Construct
  \/ \E o \in Registrants : Register(o)
  \/ \E o \in Registrants : Unregister(o)
  \/ \E o \in Registrants : CbRegister(o)
  \/ \E o \in Registrants : CbUnregister(o)
  \/ Run

SpecDispatch == InitDispatch /\ [][NextDispatch]_vars

\* the ticks: the user registers an object and a function and starts the
\* loop, which has a target rate, and the loop runs
InitTicks ==
  /\ InitLoop
  /\ mode \in {INTERVAL, RAF}
  /\ targetFPS \in Rates \ {Null}
  /\ pool = {"A", "F"}
  /\ horizon = MaxTime

NextTicks ==
  \/ Construct
  \/ Start
  \/ \E o \in Registrants : Register(o)
  \/ Run

SpecTicks == InitTicks /\ [][NextTicks]_vars


----------------------------------------------------------------------------
(* Properties of the life cycle *)

\* a step that is a firing of a refresh request
RafStep == \E r \in rafs, d \in 1..MaxStep : RafFire(r, d)

\* a step that is a call of start(), by the user or by the constructor
StartStep == Start \/ Construct

\* C2: for a loop that start() never found with a timing primitive armed,
\* after stop() called outside a dispatch no timing primitive is armed, and
\* no tick begins between that stop() and the next start().
C2_StopOutsideCancels ==
  ~dupStart =>
    /\ stopped = "out" => (Armed = {} /\ pc = "idle")
    /\ tickStop # "out"

\* C2 witness: a RAF loop with a registrant has run ticks and was stopped
\* from outside
C2_Witness ==
  /\ ~dupStart /\ stopped = "out" /\ loop.kind = "raf"
  /\ objects # <<>> /\ clock > 0 /\ lastUpdate > 0

\* C3: after stop() called by a callback, once the dispatch is over no
\* timing primitive is armed, and no tick begins before the next start().
C3_StopInsideCancels ==
  (~dupStart /\ stopped = "in") =>
    /\ pc = "idle" => Armed = {}
    /\ tickStop # "in"

\* C4: start() with a timing primitive armed changes nothing: it arms no
\* primitive and leaves totalJitter, frame, lastUpdate and active alone, and
\* at most one primitive is armed at any time.
C4_StartIdempotent ==
  [][/\ Cardinality(Armed') <= 1
     /\ (Start /\ Armed # {}) =>
          (Armed' = Armed /\
           UNCHANGED <<totalJitter, frame, lastUpdate, active>>)]_vars

\* C7: after a callback threw in a tick of a running loop, a timing
\* primitive is still armed.
C7_ThrowKeepsDriver ==
  (pc = "idle" /\ err = "callback" /\ active /\ ~dupStart) => Armed # {}

\* C8 as claimed: after start() raised the invalid mode error, the loop is
\* inactive and no timing primitive is armed.
C8_InvalidModeInactive ==
  err = "InvalidMode" => (~active /\ Armed = {})

\* C8 as amended: start() with an invalid mode raises the error at once,
\* and leaves active and the armed timing primitives as they were.
C8_InvalidModeKeeps ==
  [][(StartStep /\ mode \notin {INTERVAL, RAF}) =>
       /\ err' = "InvalidMode"
       /\ pc' = "idle"
       /\ active' = active
       /\ Armed' = Armed]_vars

\* C8 witness: a stopped loop was given the mode 99 and started
C8_Witness ==
  /\ err = "InvalidMode" /\ constructed = "yes" /\ mode = BadMode
  /\ ~active /\ Armed = {} /\ clock > 0

C10_ThrottledFrames ==
  [][(/\ RafStep
      /\ loop.kind = "raf" /\ ~Falsy(targetFPS)
      /\ active /\ stopped = "no" /\ ~dupStart
      /\ maxGap' <= Delay) =>
       LET elapsed == JsFloorDiv(JsSub(clock', loop.startTime), Delay)
       IN /\ (pc' = "early") <=> JsGt(elapsed, frame)
          /\ (pc' = "early") => frame' = frame + 1
          /\ (pc' # "early") => frame' = frame]_vars


----------------------------------------------------------------------------
(* Properties of the dispatch and of the registered set *)

\* the callbacks the tick has invoked, without their argument
CallNames == [i \in 1..Len(calls) |-> <<calls[i][1], calls[i][2]>>]

\* the registrants of arr that have the callback of a phase, in arr's order,
\* each paired with the phase
PhaseCalls(arr, phase) ==
  LET having == SelectSeq(arr, LAMBDA o : Invokes(phase, o))
  IN [i \in 1..Len(having) |-> <<having[i], phase>>]

\* a whole tick over arr: the three phases one after the other
TickCalls(arr) ==
  PhaseCalls(arr, "early") \o PhaseCalls(arr, "update")
    \o PhaseCalls(arr, "late")

IsPrefix(a, b) == Len(a) <= Len(b) /\ \A i \in 1..Len(a) : a[i] = b[i]

\* the last loop of update(now) is over and update(now) is about to return
TickOver == pc = "late" /\ cur = "none" /\ idx > Len(iterArr)

\* C1: in a tick whose callbacks call neither register nor unregister, the
\* callbacks invoked so far are the first ones of: every earlyUpdate in
\* registration order, then every update, then every lateUpdate; when the
\* tick is over they are all of them.
C1_PhaseOrder ==
  (pc \in Phases /\ cbCalls = 0) =>
    /\ IsPrefix(CallNames, TickCalls(objects))
    /\ TickOver => CallNames = TickCalls(objects)

\* C1 witness: the tick over A, B, C is over
C1_Witness ==
  /\ TickOver /\ cbCalls = 0
  /\ objects = <<"A", "B", "C">>
  /\ CallNames = << <<"A", "early">>, <<"B", "early">>, <<"C", "early">>,
                    <<"A", "update">>, <<"B", "update">>, <<"C", "update">>,
                    <<"A", "late">>, <<"B", "late">>, <<"C", "late">> >>

NoDuplicates(arr) ==
  \A i, j \in 1..Len(arr) : arr[i] = arr[j] => i = j

\* C5: after every register and unregister call the registered set holds no
\* identity twice, holds exactly the identities whose latest call is
\* register, in the order of the register calls that found them absent; a
\* register of a present identity and an unregister of an absent one leave
\* the set as it was and raise no error.
C5_RegisteredSet ==
  [][/\ NoDuplicates(objects')
     /\ \A o \in Registrants :
          Includes(objects', o) <=> lastCall'[o] = "register"
     /\ objects' = regOrder'
     /\ \A o \in Registrants :
          /\ (Register(o) \/ CbRegister(o)) /\ Includes(objects, o)
               => (objects' = objects /\ err' = err /\ pc' = pc)
          /\ (Unregister(o) \/ CbUnregister(o)) /\ ~Includes(objects, o)
               => (objects' = objects /\ err' = err /\ pc' = pc)]_vars

\* C5 witness: after a tick, C and A are registered in that order and the
\* latest call for B is unregister
C5_Witness ==
  /\ objects = <<"C", "A">>
  /\ lastCall["B"] = "unregister"
  /\ lastCall["F"] = "none"
  /\ pc = "idle" /\ clock > 0

\* the phases after a phase
LaterPhases(phase) ==
  CASE phase = "early" -> {"update", "late"}
    [] phase = "update" -> {"late"}
    [] OTHER -> {}

\* C6 as claimed: when a callback has thrown, the tick still invokes the
\* callbacks of the later phases.
C6_LaterPhasesRun ==
  (pc = "thrown" /\ cbCalls = 0) =>
    \A i \in 1..Len(objects) :
      \A ph \in LaterPhases(calls[Len(calls)][2]) :
        Invokes(ph, objects[i]) =>
          \E k \in 1..Len(calls) : CallNames[k] = <<objects[i], ph>>

\* C6 as amended: when a callback throws, the error leaves update(now): no
\* further callback of the tick is invoked, neither of the same phase nor
\* of a later one.
C6_ThrowEndsTick ==
  /\ err \in {"callback", "callback in start"} => pc \in {"thrown", "idle"}
  /\ pc = "thrown" =>
       /\ Len(calls) >= 1
       /\ ~ENABLED (Invoke \/ Skip \/ PhaseEnd \/ Finish \/ Return)
       /\ cbCalls = 0 => IsPrefix(CallNames, TickCalls(objects))

\* C6 witness: A threw in earlyUpdate with B registered after it
C6_Witness ==
  /\ pc = "thrown"
  /\ objects = <<"A", "B">>
  /\ CallNames = << <<"A", "early">> >>

----------------------------------------------------------------------------
(* Properties of the refresh-synchronised driver without a target rate *)

\* a RAF loop without a target rate that runs: started once, not stopped
UncappedRunning ==
  /\ loop.kind = "raf" /\ Falsy(targetFPS)
  /\ active /\ stopped = "no" /\ ~dupStart

\* C11: in a running RAF loop without a target rate every refresh signal
\* begins a dispatch, and once the dispatch it began is left a refresh
\* request is armed for the next signal.
C11_UncappedEverySignal ==
  [][/\ (RafStep /\ UncappedRunning) => pc' = "early"
     /\ (UncappedRunning /\ ctx = "raf" /\ pc # "idle" /\ pc' = "idle")
          => Armed' # {}]_vars

----------------------------------------------------------------------------
(* Properties of start() in a RAF loop *)

\* C12: start() of a RAF loop, with or without a target rate, begins the
\* dispatch of tick 0 before it returns, and records startTime when that
\* dispatch is over.
C12_StartDispatchesTickZero ==
  [][/\ (StartStep /\ mode = RAF) => (pc' = "early" /\ ctx' = "rafstart")
     /\ (ctx = "rafstart" /\ Finish) => loop'.startTime = clock]_vars

----------------------------------------------------------------------------
(* Properties of frame *)

\* C13: frame is -1 when the loop is not active, and when it is active and
\* no tick was dispatched since the latest start(); frame is 0 or more when
\* the loop is active and a tick was dispatched since the latest start().
C13_FrameSentinel ==
  constructed = "yes" =>
    /\ ~active => frame = -1
    /\ (active /\ ticks = 0) => frame = -1
    /\ (active /\ ticks >= 1) => JsGe(frame, 0)

----------------------------------------------------------------------------
(* Properties of register and unregister called by callbacks *)

\* how often the tick has invoked the callback of o for a phase
Invocations(o, phase) ==
  Cardinality({k \in 1..Len(calls) : CallNames[k] = <<o, phase>>})

\* the phases whose loops are over
DonePhases ==
  CASE pc = "early" -> {}
    [] pc = "update" -> {"early"}
    [] pc = "late" -> IF TickOver THEN Phases ELSE {"early", "update"}
    [] OTHER -> {}

\* C14: in a tick whose callbacks call register or unregister, a registrant
\* that was registered when the tick began and is no argument of those
\* calls is invoked at most once for each phase it has a callback for, and
\* exactly once when the loop of the phase is over.
C14_OthersOncePerPhase ==
  pc \in Phases =>
    \A o \in Registrants :
      (Includes(tickObjects, o) /\ o \notin cbArgs) =>
        \A ph \in Phases :
          Invokes(ph, o) =>
            /\ Invocations(o, ph) <= 1
            /\ ph \in DonePhases => Invocations(o, ph) = 1

\* C14 witness: A unregistered itself in its earlyUpdate, and the tick over
\* A, B, C went on to invoke B and C in every phase
C14_Witness ==
  /\ TickOver
  /\ tickObjects = <<"A", "B", "C">> /\ cbArgs = {"A"}
  /\ objects = <<"B", "C">>
  /\ CallNames = << <<"A", "early">>, <<"B", "early">>, <<"C", "early">>,
                    <<"B", "update">>, <<"C", "update">>,
                    <<"B", "late">>, <<"C", "late">> >>

\* C15: a callback is invoked only for a registrant whose latest call of
\* register/unregister is register: after unregister(r) no callback of r is
\* invoked until register(r), also when a callback of another registrant
\* called unregister(r) in the middle of a phase.
C15_UnregisteredNotInvoked ==
  [][Invoke => lastCall[iterArr[idx]] = "register"]_vars

----------------------------------------------------------------------------
(* Properties of the statistics *)

\* C16: in a loop with a target rate, when exactly one tick was dispatched
\* since the latest start(), averageJitter equals jitter, the jitter of
\* that tick.
C16_AverageAfterOneTick ==
  (constructed = "yes" /\ ~Falsy(targetFPS) /\ ticks = 1) =>
    JsEquals(AverageJitter, jitter)

----------------------------------------------------------------------------
(* Properties of stop() on a loop that is not active *)

----------------------------------------------------------------------------
(* Properties of droppedFrame *)

\* C18: in a running RAF loop with a target rate, a refresh signal that
\* dispatches a tick after an earlier tick sets droppedFrame to true
\* exactly when the elapsed frames it assigns to frame exceed the frame of
\* the earlier tick by 2 or more.
C18_DroppedFrame ==
  [][(/\ RafStep
      /\ loop.kind = "raf" /\ ~Falsy(targetFPS)
      /\ active /\ stopped = "no" /\ ~dupStart
      /\ ticks >= 1
      /\ pc' = "early") =>
       (droppedFrame' <=> JsGe(JsSub(frame', frame), 2))]_vars

----------------------------------------------------------------------------
(* Properties of jitter and totalJitter *)

\* the tick interval of a loop with a target rate, in milliseconds
TickInterval == 1000 \div targetFPS

\* |x| for an integer
Abs(x) == IF x < 0 THEN -x ELSE x

\* the jitter of the tick in progress is |deltaTime - tick interval|, and
\* totalJitter is the sum of the jitter of the ticks since the latest start()
JitterTotals ==
  /\ pc \in Phases => jitter = Abs(deltaTime - TickInterval)
  /\ totalJitter = jitterSum

\* C19: in a loop with a target rate, every tick sets jitter to
\* |deltaTime - floor(1000 / targetFPS)|, totalJitter is the sum of the
\* jitter of the ticks dispatched since the latest start(), and totalJitter
\* does not change while the loop is not active, unless start() is called.
C19_JitterTotals ==
  [][(constructed' = "yes" /\ ~Falsy(targetFPS)) =>
       /\ JitterTotals'
       /\ (~active /\ ~StartStep) => totalJitter' = totalJitter]_vars

----------------------------------------------------------------------------
(* Properties of deltaTime *)

\* C20: every callback a tick invokes, a registered function too, is
\* called with the deltaTime of the tick, which is not negative; the
\* deltaTime values of the ticks since the latest start() add up to the
\* time from that start() to the latest tick, so that each of them is the
\* time since the tick before it, or since start() for the first.
C20_DeltaTime ==
  /\ \A k \in 1..Len(calls) : calls[k][3] = deltaTime
  /\ pc \in Phases => (deltaTime >= 0 /\ deltaSum = clock - startStamp)
  /\ (pc = "idle" /\ ticks >= 1) => deltaSum = lastUpdate - startStamp

\* C20 witness: the third tick since a start() at 0 ms comes 1 ms after the
\* second, and has called the object's earlyUpdate and update and the
\* function with 1
C20_Witness ==
  /\ pc = "update" /\ ticks = 3 /\ startStamp = 0 /\ clock = 3
  /\ calls = << <<"A", "early", 1>>, <<"A", "update", 1>>,
                <<"F", "update", 1>> >>

============================================================================
